---- MODULE Spec2Model ----
(***************************************************************************)
(* Model of scripts/crawl.py: the two-level crawl of a business website.   *)
(*                                                                         *)
(* Strings are sequences of one-character strings, so that lower-casing,   *)
(* substring tests, URL parsing and rstrip are computed, not assumed.  The *)
(* scheme prefix of a URL ("https://", "mailto:", ...) is kept as a single *)
(* leading element.                                                        *)
(***************************************************************************)
EXTENDS Integers, Sequences, FiniteSets, TLC

\* ------------------------------------------------------------------------
\* Strings
\* ------------------------------------------------------------------------

Upper == {"A","B","C","D","E","F","G","H","I","J","K","L","M",
          "N","O","P","Q","R","S","T","U","V","W","X","Y","Z"}

LowerOf == [c \in Upper |->
    CASE c = "A" -> "a" [] c = "B" -> "b" [] c = "C" -> "c" [] c = "D" -> "d"
      [] c = "E" -> "e" [] c = "F" -> "f" [] c = "G" -> "g" [] c = "H" -> "h"
      [] c = "I" -> "i" [] c = "J" -> "j" [] c = "K" -> "k" [] c = "L" -> "l"
      [] c = "M" -> "m" [] c = "N" -> "n" [] c = "O" -> "o" [] c = "P" -> "p"
      [] c = "Q" -> "q" [] c = "R" -> "r" [] c = "S" -> "s" [] c = "T" -> "t"
      [] c = "U" -> "u" [] c = "V" -> "v" [] c = "W" -> "w" [] c = "X" -> "x"
      [] c = "Y" -> "y" [] c = "Z" -> "z"]

\* str.lower()
Lower(s) == [i \in 1..Len(s) |-> IF s[i] \in Upper THEN LowerOf[s[i]] ELSE s[i]]

\* `sub in s`
Contains(sub, s) ==
    \/ sub = <<>>
    \/ \E i \in 1..(Len(s) - Len(sub) + 1) :
          s[i] = sub[1] /\ SubSeq(s, i, i + Len(sub) - 1) = sub

\* s.startswith(prefix)
StartsWith(s, prefix) ==
    Len(s) >= Len(prefix) /\ SubSeq(s, 1, Len(prefix)) = prefix

\* index of the first element of s that lies in cs, Len(s) + 1 when there is none
FirstIdx(s, cs) ==
    LET hits == {i \in 1..Len(s) : s[i] \in cs}
    IN  IF hits = {} THEN Len(s) + 1
        ELSE CHOOSE i \in hits : \A j \in hits : i <= j

\* index of the last element of s that lies in cs, 0 when there is none
LastIdx(s, cs) ==
    LET hits == {i \in 1..Len(s) : s[i] \in cs}
    IN  IF hits = {} THEN 0
        ELSE CHOOSE i \in hits : \A j \in hits : i >= j

Range(s) == {s[i] : i \in 1..Len(s)}

\* s.rstrip("/")
RStripSlash(s) == SubSeq(s, 1, LastIdx(s, Range(s) \ {"/"}))

\* ------------------------------------------------------------------------
\* urllib.parse
\* ------------------------------------------------------------------------

Schemes == {"https://", "http://"}

\* urlparse(url): scheme, netloc, path, query and fragment of a URL string
urlparse(url) ==
    LET hasScheme == url # <<>> /\ url[1] \in Schemes
        rest     == IF hasScheme THEN Tail(url) ELSE url
        n        == IF hasScheme THEN FirstIdx(rest, {"/", "?", "#"}) - 1 ELSE 0
        after    == SubSeq(rest, n + 1, Len(rest))
        h        == FirstIdx(after, {"#"})
        nofrag   == SubSeq(after, 1, h - 1)
        q        == FirstIdx(nofrag, {"?"})
    IN  [scheme   |-> IF hasScheme THEN url[1] ELSE "",
         netloc   |-> SubSeq(rest, 1, n),
         path     |-> SubSeq(nofrag, 1, q - 1),
         query    |-> SubSeq(nofrag, q + 1, Len(nofrag)),
         fragment |-> SubSeq(after, h + 1, Len(after))]

\* urljoin(base, href) for the href forms the model's pages use: an absolute
\* URL, a path starting with "/", and a bare "#fragment"
urljoin(base, href) ==
    LET b == urlparse(base)
    IN  IF href # <<>> /\ href[1] \in Schemes THEN href
        ELSE IF href # <<>> /\ href[1] = "/" THEN <<b.scheme>> \o b.netloc \o href
        ELSE IF href # <<>> /\ href[1] = "#"
             THEN SubSeq(base, 1, FirstIdx(base, {"#"}) - 1) \o href
        ELSE base

\* ".".join(netloc.split(".")[-2:])
ApexDomain(netloc) ==
    LET last == LastIdx(netloc, {"."})
        prev == LastIdx(SubSeq(netloc, 1, last - 1), {"."})
    IN  IF last = 0 THEN netloc ELSE SubSeq(netloc, prev + 1, Len(netloc))

\* ------------------------------------------------------------------------
\* Link keyword filters
\* ------------------------------------------------------------------------

TEAM_KEYWORDS == << <<"a","b","o","u","t">>, <<"t","e","a","m">>, <<"f","o","u","n","d","e","r">>, <<"f","o","u","n","d","e","r","s">>, <<"p","e","o","p","l","e">>,
                    <<"w","h","o","-","w","e","-","a","r","e">>, <<"l","e","a","d","e","r","s","h","i","p">> >>

CLIENT_KEYWORDS == << <<"c","u","s","t","o","m","e","r">>, <<"c","u","s","t","o","m","e","r","s">>, <<"c","l","i","e","n","t">>, <<"c","l","i","e","n","t","s">>,
                      <<"t","e","s","t","i","m","o","n","i","a","l">>, <<"t","e","s","t","i","m","o","n","i","a","l","s">>, <<"c","a","s","e","-","s","t","u","d","y">>,
                      <<"c","a","s","e","-","s","t","u","d","i","e","s">>, <<"r","e","v","i","e","w">>, <<"r","e","v","i","e","w","s">>, <<"s","t","o","r","y">>,
                      <<"s","t","o","r","i","e","s">>, <<"w","a","l","l","-","o","f","-","l","o","v","e">> >>

PRICING_KEYWORDS == << <<"p","r","i","c","i","n","g">>, <<"p","l","a","n","s">>, <<"p","r","i","c","e">> >>

API_KEYWORDS == << <<"a","p","i">>, <<"d","o","c","s">>, <<"d","e","v","e","l","o","p","e","r">>, <<"d","e","v","e","l","o","p","e","r","s">>, <<"i","n","t","e","g","r","a","t","i","o","n">>,
                   <<"i","n","t","e","g","r","a","t","i","o","n","s">>, <<"o","p","e","n","a","p","i">>, <<"s","w","a","g","g","e","r">> >>

\* the category list select_level2_links iterates over, in priority order
CATEGORIES == << TEAM_KEYWORDS, CLIENT_KEYWORDS, PRICING_KEYWORDS, API_KEYWORDS >>

\* keyword_match(text, keywords)
keyword_match(text, keywords) ==
    LET lowered == Lower(text)
    IN  \E k \in 1..Len(keywords) : Contains(keywords[k], lowered)

\* ------------------------------------------------------------------------
\* Level 2 link selection
\* ------------------------------------------------------------------------

RECURSIVE SumTo(_, _)
SumTo(f, n) == IF n = 0 THEN 0 ELSE f[n] + SumTo(f, n - 1)

\* KeywordPoints with `if` in place of `elif`: a keyword in both path and text
\* counts for both
KeywordPoints_if_if(kw, path, text) ==
    (IF Contains(kw, path) THEN 2 ELSE 0) + (IF Contains(kw, text) THEN 1 ELSE 0)

\* what one keyword adds to a link's score
KeywordPoints(kw, path, text) ==
    IF Contains(kw, path) THEN 2
    ELSE IF Contains(kw, text) THEN 1
    ELSE 0

\* score_link(link, keywords)
score_link(link, keywords) ==
    LET path == Lower(urlparse(link.url).path)
        text == Lower(link.text)
    IN  SumTo([k \in 1..Len(keywords) |-> KeywordPoints(keywords[k], path, text)],
              Len(keywords))

\* InsertByScore for an unstable sort: a pair goes in front of its equals
RECURSIVE InsertByScore_unstable(_, _)
InsertByScore_unstable(x, sorted) ==
    IF sorted = <<>> THEN <<x>>
    ELSE IF Head(sorted).score > x.score
         THEN <<Head(sorted)>> \o InsertByScore_unstable(x, Tail(sorted))
         ELSE <<x>> \o sorted

\* list.sort(key=lambda x: -x[0]) is stable: an insertion sort that puts each
\* pair behind every pair whose score is at least its own
RECURSIVE InsertByScore(_, _)
InsertByScore(x, sorted) ==
    IF sorted = <<>> THEN <<x>>
    ELSE IF Head(sorted).score >= x.score
         THEN <<Head(sorted)>> \o InsertByScore(x, Tail(sorted))
         ELSE <<x>> \o sorted

RECURSIVE SortByScoreDesc(_)
SortByScoreDesc(scored) ==
    IF scored = <<>> THEN <<>>
    ELSE InsertByScore(scored[Len(scored)],
                       SortByScoreDesc(SubSeq(scored, 1, Len(scored) - 1)))

\* the candidates of one category: scored, zero scores dropped, sorted
ScoredFor(links, category_keywords) ==
    LET scored == [i \in 1..Len(links) |->
                     [score |-> score_link(links[i], category_keywords),
                      link  |-> links[i]]]
    IN  SortByScoreDesc(SelectSeq(scored, LAMBDA p : p.score > 0))

\* IsAnchorOnly testing the path against "/" alone
IsAnchorOnly_slash_only(url) ==
    LET parsed == urlparse(url)
    IN  parsed.fragment # <<>> /\ parsed.path = <<"/">>

\* the anchor test of add(): a fragment on the bare root path
IsAnchorOnly(url) ==
    LET parsed == urlparse(url)
    IN  parsed.fragment # <<>> /\ parsed.path \in {<<"/">>, <<>>}

\* add() without the seen_urls test
add_no_seen_urls(st, link) ==
    IF IsAnchorOnly(link.url) THEN st
    ELSE IF Len(st.selected) < 4
         THEN [selected  |-> Append(st.selected, link),
               seen_urls |-> st.seen_urls \cup {link.url}]
         ELSE st

\* add(link) of select_level2_links, on the pair (selected, seen_urls)
add(st, link) ==
    IF IsAnchorOnly(link.url) THEN st
    ELSE IF link.url \notin st.seen_urls /\ Len(st.selected) < 4
         THEN [selected  |-> Append(st.selected, link),
               seen_urls |-> st.seen_urls \cup {link.url}]
         ELSE st

\* add() tried on the candidates in order until one is taken
RECURSIVE add_first_accepted(_, _)
add_first_accepted(st, scored) ==
    IF scored = <<>> THEN st
    ELSE IF add(st, scored[1].link) # st THEN add(st, scored[1].link)
    ELSE add_first_accepted(st, Tail(scored))

\* select_step falling back on the next candidates when the best is refused
select_step_fallback(st, links, category_keywords) ==
    add_first_accepted(st, ScoredFor(links, category_keywords))

\* one iteration of the category loop of select_level2_links
select_step(st, links, category_keywords) ==
    LET scored == ScoredFor(links, category_keywords)
    IN  IF scored # <<>> THEN add(st, scored[1].link) ELSE st

RECURSIVE select_from(_, _, _)
select_from(st, links, c) ==
    IF c > Len(CATEGORIES) THEN st
    ELSE select_from(select_step(st, links, CATEGORIES[c]), links, c + 1)

EmptySelection == [selected |-> <<>>, seen_urls |-> {}]

\* select_level2_links(links)
select_level2_links(links) == select_from(EmptySelection, links, 1).selected

\* ------------------------------------------------------------------------
\* Text: a string too long to spell out is a sequence of pieces, each a
\* literal run of characters followed by `pad` filler characters "."
\* ------------------------------------------------------------------------

Piece(lit, pad) == [lit |-> lit, pad |-> pad]

Space == Piece(<<" ">>, 0)

RECURSIVE TextLen(_)
TextLen(t) ==
    IF t = <<>> THEN 0 ELSE Len(Head(t).lit) + Head(t).pad + TextLen(Tail(t))

Min(a, b) == IF a <= b THEN a ELSE b

\* t[:n]
RECURSIVE Take(_, _)
Take(t, n) ==
    IF t = <<>> \/ n <= 0 THEN <<>>
    ELSE LET p == Head(t)
             l == Len(p.lit) + p.pad
         IN  IF l <= n THEN <<p>> \o Take(Tail(t), n - l)
             ELSE IF n <= Len(p.lit) THEN <<Piece(SubSeq(p.lit, 1, n), 0)>>
             ELSE <<Piece(p.lit, n - Len(p.lit))>>

\* " ".join(texts)
RECURSIVE JoinSpace(_)
JoinSpace(texts) ==
    IF texts = <<>> THEN <<>>
    ELSE IF Len(texts) = 1 THEN texts[1]
    ELSE texts[1] \o <<Space>> \o JoinSpace(Tail(texts))

\* list[:n]
Prefix(s, n) == SubSeq(s, 1, Min(n, Len(s)))

\* the elements of a list in order of first occurrence; stands for
\* list(set(s)), whose order Python leaves open
RECURSIVE Dedup(_)
Dedup(s) ==
    IF s = <<>> THEN <<>>
    ELSE LET front == Dedup(SubSeq(s, 1, Len(s) - 1))
             x     == s[Len(s)]
         IN  IF x \in Range(front) THEN front ELSE Append(front, x)

\* ------------------------------------------------------------------------
\* Parsing: extract_page
\* An HTML document is what the parser and the e-mail pattern find in it:
\* its <title>, first <h1>, description meta, anchors, heading and text
\* elements (each with whether it sits inside nav/footer/header), and the
\* matches of the e-mail pattern in document order.  EmptyBody is "".
\* ------------------------------------------------------------------------

EmptyBody == [title |-> "", h1 |-> "", meta_desc |-> "", anchors |-> <<>>,
              mails |-> <<>>, headings |-> <<>>, paragraphs |-> <<>>]

SkippedSchemes == {"javascript:", "tel:", "mailto:"}

\* the test of line 98 without the domain comparison
AcceptLink_any_domain(parsed, base_domain, abs_url, seen_link_urls) ==
    parsed.path # <<>> /\ abs_url \notin seen_link_urls

\* line 98: same apex domain, a real path, not seen before
AcceptLink(parsed, base_domain, abs_url, seen_link_urls) ==
    /\ ApexDomain(parsed.netloc) = base_domain
    /\ parsed.path # <<>>
    /\ abs_url \notin seen_link_urls

\* the anchor loop of extract_page
RECURSIVE ExtractLinks(_, _, _)
ExtractLinks(anchors, base_url, links) ==
    IF anchors = <<>> THEN links
    ELSE LET a       == Head(anchors)
             abs_url == urljoin(base_url, a.href)
             base_domain == ApexDomain(urlparse(base_url).netloc)
             seen    == {links[k].url : k \in 1..Len(links)}
         IN  IF a.href = <<>> \/ a.href[1] \in SkippedSchemes
             THEN ExtractLinks(Tail(anchors), base_url, links)
             ELSE IF AcceptLink(urlparse(abs_url), base_domain, abs_url, seen)
                  THEN ExtractLinks(Tail(anchors), base_url,
                                    Append(links, [text |-> a.text, url |-> abs_url]))
                  ELSE ExtractLinks(Tail(anchors), base_url, links)

EmailDenylist == { <<"e","x","a","m","p","l","e">>, <<"t","e","s","t","@">>, <<"@","s","e","n","t","r","y">>, <<"@","e","m","a","i","l">> }

\* lines 103-104
ExtractEmails(mails) ==
    SelectSeq(Dedup(mails),
              LAMBDA e : ~\E x \in EmailDenylist : Contains(x, Lower(e)))

\* texts of the elements outside nav/footer/header
OutsideNav(elements) ==
    LET kept == SelectSeq(elements, LAMBDA el : ~el.nav)
    IN  [k \in 1..Len(kept) |-> kept[k].text]

\* extract_page(html, base_url)
extract_page(html, base_url) ==
    [title     |-> IF html.h1 # "" THEN html.h1 ELSE html.title,
     meta_desc |-> html.meta_desc,
     headings  |-> OutsideNav(html.headings),
     raw_text  |-> JoinSpace(SelectSeq(OutsideNav(html.paragraphs),
                                       LAMBDA t : TextLen(t) > 30)),
     links     |-> ExtractLinks(html.anchors, base_url, <<>>),
     emails    |-> ExtractEmails(html.mails)]

\* ------------------------------------------------------------------------
\* The web the crawl runs against
\* ------------------------------------------------------------------------

A(text, href) == [text |-> text, href |-> href]
El(text, nav) == [text |-> text, nav |-> nav]
Rep(n, x) == [k \in 1..n |-> x]

Letters == << "a","b","c","d","e","f","g","h","i","j","k","l","m","n","o","p","q" >>

RootUrl == <<"https://">> \o <<"x",".","c","o","m">>
Landing == <<"https://">> \o <<"w","w","w",".","y",".","o","r","g","/">>
Moved   == <<"https://">> \o <<"x",".","c","o","m","/","m","o","v","e","d">>

HomeDoc ==
    [title |-> "Acme", h1 |-> "Acme builds things", meta_desc |-> "We build things",
     anchors |-> <<
        A(<<"O","u","r"," ","T","e","a","m">>,  <<"/","a","b","o","u","t","/","t","e","a","m">>),
        A(<<"T","e","a","m">>,      <<"/","a","b","o","u","t","/","t","e","a","m","/">>),
        A(<<"C","u","s","t","o","m","e","r","s">>, <<"/","a","b","o","u","t","/","c","u","s","t","o","m","e","r","s">>),
        A(<<"P","r","i","c","i","n","g">>,   <<"/","p","r","i","c","i","n","g","/">>),
        A(<<"A","P","I"," ","D","o","c","s">>,  <<"https://">> \o <<"d","o","c","s",".","x",".","c","o","m","/","a","p","i">>),
        A(<<"D","o","c","s">>,      <<"https://">> \o <<"d","o","c","s",".","w","w","w",".","y",".","o","r","g","/","a","p","i">>),
        A(<<"P","a","r","t","n","e","r">>,   <<"https://">> \o <<"p","a","r","t","n","e","r",".","n","e","t","/","a","b","o","u","t">>),
        A(<<"A","b","o","u","t">>,     <<"#","a","b","o","u","t">>),
        A(<<>>,          <<"/","c","a","r","e","e","r","s">>),
        A(<<"L","o","g","i","n">>,     <<"/","l","o","g","i","n">>),
        A(<<"M","a","i","l"," ","u","s">>,   <<"mailto:">> \o <<"i","n","f","o","@","x",".","c","o","m">>) >>,
     mails |-> << <<"I","n","f","o","@","x",".","c","o","m">>, <<"i","n","f","o","@","x",".","c","o","m">>, <<"t","e","s","t","@","x",".","c","o","m">>,
                  <<"b","o","b","@","E","x","a","m","p","l","e",".","o","r","g">>, <<"I","n","f","o","@","x",".","c","o","m">> >>,
     headings |-> << El("Acme builds things", FALSE), El("Menu", TRUE),
                     El("Why Acme", FALSE) >>,
     paragraphs |-> <<
        El(<<Piece(<<"P","l","a","n","s"," ","f","r","o","m"," ","$","4","9","/","m","o","n","t","h">>, 20)>>, FALSE),
        El(<<Piece(<<"H","i">>, 0)>>, FALSE),
        El(<<Piece(<<"J","a","n","e"," ","D","o","e",","," ","C","E","O">>, 30)>>, FALSE),
        El(<<Piece(<<"F","o","o","t","e","r"," ","t","e","x","t">>, 40)>>, TRUE) >>]

\* the home page as served after a redirect to the landing host: its pricing
\* link is worded for customers and it quotes no price
LandingDoc ==
    [HomeDoc EXCEPT !.anchors[4] = A(<<"P","l","a","n","s"," ","f","o","r"," ","c","u","s","t","o","m","e","r","s">>, <<"/","p","r","i","c","i","n","g","/">>),
                    !.paragraphs = Tail(@)]

BigDoc ==
    [title |-> "Blog", h1 |-> "", meta_desc |-> "",
     anchors |-> << A(<<"P","r","i","v","a","c","y">>, <<"/","p","r","i","v","a","c","y">>), A(<<"S","i","g","n"," ","I","n">>, <<"/","S","i","g","n","I","n">>) >>
                 \o [k \in 1..Len(Letters) |-> A(<<"P","o","s","t">>, <<"/", "n", "/", Letters[k]>>)],
     mails |-> << <<"n","e","w","s","@","x",".","c","o","m">> >>,
     headings |-> Rep(25, El("Post", FALSE)),
     paragraphs |-> << El(<<Piece(<<"L","o","n","g"," ","r","e","a","d">>, 9000)>>, FALSE) >>]

TeamDoc ==
    [title |-> "Team", h1 |-> "", meta_desc |-> "",
     anchors |-> << A(<<"T","e","a","m"," ","c","a","r","e","e","r","s">>, <<"/","t","e","a","m","/","c","a","r","e","e","r","s">>) >>,
     mails |-> << <<"i","n","f","o","@","x",".","c","o","m">>, <<"j","a","n","e","@","x",".","c","o","m">> >>,
     headings |-> Rep(10, El("Member", FALSE)),
     paragraphs |-> <<
        El(<<Piece(<<"J","a","n","e"," ","D","o","e",","," ","C","E","O">>, 30)>>, FALSE),
        El(<<Piece(<<"\"">>, 40), Piece(<<"\"">>, 0)>>, FALSE),
        El(<<Piece(<<"F","r","o","m"," ","$","9"," ","p","e","r"," ","s","e","a","t">>, 20)>>, FALSE) >>]

LeafDoc ==
    [title |-> "Page", h1 |-> "", meta_desc |-> "",
     anchors |-> <<>>,
     mails |-> <<>>,
     headings |-> Rep(10, El("Section", FALSE)),
     paragraphs |-> << El(<<Piece(<<"L","o","r","e","m"," ","i","p","s","u","m">>, 1200)>>, FALSE) >>]

\* a response of fetch's httpx.get: whether it passed the status and
\* content-type test of line 57, its body and its final URL
Failed == [ok |-> FALSE, html |-> EmptyBody, final_url |-> <<>>]
Served(html, final_url) == [ok |-> TRUE, html |-> html, final_url |-> final_url]

\* what a request for a URL can come back with
Responses(url) ==
    IF url = RootUrl
    THEN {Failed, Served(EmptyBody, url), Served(HomeDoc, url),
          Served(LandingDoc, Landing), Served(BigDoc, url)}
    ELSE IF url = Landing
    THEN {Failed, Served(EmptyBody, url), Served(LandingDoc, url), Served(BigDoc, url)}
    ELSE IF StartsWith(urlparse(url).netloc, <<"d","o","c","s",".">>)
    THEN {Failed, Served(EmptyBody, url), Served(LeafDoc, url)}
    ELSE {Failed, Served(TeamDoc, url), Served(LeafDoc, Moved)}

\* fetch(url) on a response: (html_text, final_url) or (None, None)
fetch(r) ==
    IF r.ok THEN [html |-> r.html, final_url |-> r.final_url, none |-> FALSE]
    ELSE [html |-> EmptyBody, final_url |-> <<>>, none |-> TRUE]

\* `if html:`
Truthy(f) == ~f.none /\ f.html # EmptyBody

\* ------------------------------------------------------------------------
\* Heuristics: the patterns of detect_pricing, extract_team_snippets and
\* extract_testimonial_snippets, matched on the characters of a text.  No
\* pattern but the testimonial one can match a filler character.
\* ------------------------------------------------------------------------

\* a text with every piece that has no filler merged into the next one, so
\* that each literal run is maximal
RECURSIVE Norm(_)
Norm(t) ==
    IF Len(t) <= 1 THEN t
    ELSE IF t[1].pad = 0
         THEN Norm(<<Piece(t[1].lit \o t[2].lit, t[2].pad)>> \o SubSeq(t, 3, Len(t)))
         ELSE <<t[1]>> \o Norm(Tail(t))

\* t[n:]
RECURSIVE Drop(_, _)
Drop(t, n) ==
    IF t = <<>> \/ n <= 0 THEN t
    ELSE LET p == Head(t)
             l == Len(p.lit) + p.pad
         IN  IF l <= n THEN Drop(Tail(t), n - l)
             ELSE IF n < Len(p.lit)
                  THEN <<Piece(SubSeq(p.lit, n + 1, Len(p.lit)), p.pad)>> \o Tail(t)
                  ELSE <<Piece(<<>>, l - n)>> \o Tail(t)

\* characters outside ASCII, each one element of a string
Rupee      == "U+20B9"
LeftQuote  == "U+201C"
RightQuote == "U+201D"

Digits == {"0","1","2","3","4","5","6","7","8","9"}
LowerCh == {LowerOf[c] : c \in Upper}
WordCh == Upper \cup LowerCh \cup Digits \cup {"_"}

\* whether pattern string w sits in s at position p
At(s, p, w) == p >= 1 /\ p + Len(w) - 1 <= Len(s) /\ SubSeq(s, p, p + Len(w) - 1) = w

\* the last index of the run of characters of cs that starts at p (p - 1 when
\* s[p] is not in cs)
RunEnd(s, p, cs) ==
    IF p > Len(s) \/ s[p] \notin cs THEN p - 1
    ELSE CHOOSE q \in p..Len(s) :
            /\ \A k \in p..q : s[k] \in cs
            /\ (q = Len(s) \/ s[q + 1] \notin cs)

PricingWords == { <<"/","m","o","n","t","h">>, <<"/","u","s","e","r">>, <<"/","s","e","a","t">>, <<"p","e","r"," ","c","a","n","d","i","d","a","t","e">>,
                  <<"p","e","r"," ","a","s","s","e","s","s","m","e","n","t">>, <<"p","e","r"," ","s","e","a","t">>, <<"s","t","a","r","t","i","n","g"," ","a","t">> }

\* detect_pricing(text)
detect_pricing(text) ==
    LET runs == Norm(text)
    IN  \E k \in 1..Len(runs) :
        LET s  == runs[k].lit
            lo == Lower(s)
        IN  \/ \E p \in 1..(Len(s) - 1) : s[p] \in {"$", Rupee} /\ s[p + 1] \in Digits
            \/ \E w \in PricingWords : Contains(w, lo)
            \/ \E p \in 1..Len(s) :
                  At(lo, p, <<"/","m","o">>) /\ (p + 3 > Len(s) \/ s[p + 3] \notin WordCh)

\* end of [A-Z][a-z]+ at p, 0 when it does not match there
CapWordEnd(s, p) ==
    IF p + 1 <= Len(s) /\ s[p] \in Upper /\ s[p + 1] \in LowerCh
    THEN RunEnd(s, p + 1, LowerCh)
    ELSE 0

\* end of ([A-Z][a-z]+ [A-Z][a-z]+) at p, 0 when it does not match there
NameEnd(s, p) ==
    LET e1 == CapWordEnd(s, p)
    IN  IF e1 > 0 /\ At(s, e1 + 1, <<" ">>) THEN CapWordEnd(s, e1 + 2) ELSE 0

\* end of the first alternative of alts (in order) that sits at p, 0 if none
AltEnd(s, p, alts) ==
    IF \E a \in 1..Len(alts) : At(s, p, alts[a])
    THEN LET a == CHOOSE a \in 1..Len(alts) :
                     At(s, p, alts[a]) /\ \A b \in 1..(a - 1) : ~At(s, p, alts[b])
         IN  p + Len(alts[a]) - 1
    ELSE 0

Titles == << <<"C","E","O">>, <<"C","T","O">>, <<"C","O","O">>, <<"C","P","O">>, <<"F","o","u","n","d","e","r">>, <<"C","o","-","f","o","u","n","d","e","r">>,
             <<"H","e","a","d"," ","o","f">>, <<"V","P">>, <<"D","i","r","e","c","t","o","r">> >>
Roles  == << <<"f","o","u","n","d","e","r">>, <<"c","o","-","f","o","u","n","d","e","r">>, <<"C","E","O">>, <<"C","T","O">> >>

\* end of a match of the first team pattern at p, 0 if none
TitledEnd(s, p) ==
    LET e == NameEnd(s, p)
    IN  IF e > 0 /\ At(s, e + 1, <<",">>)
        THEN AltEnd(s, RunEnd(s, e + 2, {" "}) + 1, Titles)
        ELSE 0

\* end of a match of the second team pattern at p, 0 if none
IsRoleEnd(s, p) ==
    LET e == NameEnd(s, p)
    IN  IF e > 0 /\ At(s, e + 1, <<" ","i","s"," ">>)
        THEN LET q == IF At(s, e + 5, <<"t","h","e"," ">>) \/ At(s, e + 5, <<"o","u","r"," ">>)
                      THEN e + 9 ELSE e + 5
             IN  IF AltEnd(s, q, Roles) > 0 THEN AltEnd(s, q, Roles)
                 ELSE AltEnd(s, e + 5, Roles)
        ELSE 0

\* re.finditer on one literal run: the matches from p on, left to right,
\* not overlapping; pat is 1 or 2
RECURSIVE FindIter(_, _, _)
FindIter(s, p, pat) ==
    IF p > Len(s) THEN <<>>
    ELSE LET e == IF pat = 1 THEN TitledEnd(s, p) ELSE IsRoleEnd(s, p)
         IN  IF e > 0 THEN <<SubSeq(s, p, e)>> \o FindIter(s, e + 1, pat)
             ELSE FindIter(s, p + 1, pat)

RECURSIVE FindInText(_, _)
FindInText(t, pat) ==
    IF t = <<>> THEN <<>> ELSE FindIter(Head(t).lit, 1, pat) \o FindInText(Tail(t), pat)

\* extract_team_snippets(text)
extract_team_snippets(text) ==
    Prefix(FindInText(Norm(text), 1) \o FindInText(Norm(text), 2), 5)

QuoteCh == {"\"", LeftQuote, RightQuote}

\* the offsets (from 1) of the quotation marks of a text, ascending
RECURSIVE QuoteOffsets(_, _)
QuoteOffsets(t, base) ==
    IF t = <<>> THEN <<>>
    ELSE LET s    == Head(t).lit
             here == SelectSeq([k \in 1..Len(s) |-> IF s[k] \in QuoteCh THEN base + k ELSE 0],
                               LAMBDA o : o > 0)
         IN  here \o QuoteOffsets(Tail(t), base + Len(s) + Head(t).pad)

\* re.findall of the quoted-span pattern, on the offsets of the quotation
\* marks: an opening mark matches with the next mark when 30 to 200
\* characters lie between them, and the search goes on behind the match
RECURSIVE QuotedSpans(_, _)
QuotedSpans(t, qs) ==
    IF Len(qs) < 2 THEN <<>>
    ELSE IF qs[2] - qs[1] - 1 >= 30 /\ qs[2] - qs[1] - 1 <= 200
         THEN <<Take(Drop(t, qs[1]), qs[2] - qs[1] - 1)>>
                 \o QuotedSpans(t, SubSeq(qs, 3, Len(qs)))
         ELSE QuotedSpans(t, Tail(qs))

\* extract_testimonial_snippets(text)
extract_testimonial_snippets(text) ==
    Prefix(QuotedSpans(text, QuoteOffsets(text, 0)), 3)

\* ------------------------------------------------------------------------
\* State
\* ------------------------------------------------------------------------

VARIABLES
    sel_links,      \* select_level2_links: the `links` argument
    sel_st,         \* select_level2_links: selected and seen_urls
    sel_cat,        \* select_level2_links: index of the next category of the loop
    sel_chosen,     \* history: for each selected link, the category that added it
    root_url,       \* crawl: argument
    extra_urls,     \* crawl: argument
    deep,           \* crawl: argument
    pc,             \* crawl: "level1", "level2", "done" or "fatal"
    idx,            \* crawl: position of the running for loop, from 1
    level1_pages,   \* crawl: dict url -> page, as a list of entries in insertion order
    pages_crawled,
    all_emails,
    all_headings,
    all_text,
    title,
    meta_desc,
    pages_raw,      \* crawl: dict url -> text, as a list of entries
    unique_links,
    level2_targets,
    page,           \* crawl: the page extracted last in the level 2 loop
    level2_data,
    stdout,         \* the JSON records printed by __main__
    exit_code,      \* -1 while running, else the status the process ended with
    verify_retries, \* verify_live: the `retries` argument
    verify_pc,      \* verify_live: "loop" or "returned"
    verify_i,       \* verify_live: passes of the for loop ended or under way
    last_headers,   \* verify_live: headers of the last response received
    verify_result,  \* verify_live: the pair returned
    verify_last,    \* history: what the last httpx.get of verify_live gave
    verify_requests, \* history: the number of httpx.get calls of verify_live
    log             \* history: every httpx.get made, in order, with what came back:
                    \* the final URL and, of a non-empty HTML body, the extracted page

sel_vars == <<sel_links, sel_st, sel_cat, sel_chosen>>

crawl_vars == <<root_url, extra_urls, deep, pc, idx, level1_pages, pages_crawled,
                all_emails, all_headings, all_text, title, meta_desc, pages_raw,
                unique_links, level2_targets, page, level2_data, stdout,
                exit_code, log>>

verify_vars == <<verify_retries, verify_pc, verify_i, last_headers, verify_result,
                 verify_last, verify_requests>>

vars == <<sel_vars, crawl_vars, verify_vars>>

SeqsUpTo(S, n) == UNION {[1..k -> S] : k \in 0..n}

SelIdle ==
    /\ sel_links = <<>>
    /\ sel_st = EmptySelection
    /\ sel_cat = Len(CATEGORIES) + 1
    /\ sel_chosen = <<>>


\* a response of verify_live's httpx.get, and the exception it can raise
Response(status_code, text, headers) ==
    [raised |-> FALSE, status_code |-> status_code, text |-> text, headers |-> headers]

Raised == [raised |-> TRUE, status_code |-> 0, text |-> <<>>, headers |-> <<>>]

NoResult == [success |-> FALSE, cms |-> "None"]

VerifyIdle ==
    /\ verify_retries = 0 /\ verify_pc = "idle" /\ verify_i = 0
    /\ last_headers = <<>> /\ verify_result = NoResult
    /\ verify_last = Raised /\ verify_requests = 0
\* ------------------------------------------------------------------------
\* Main: crawl
\* ------------------------------------------------------------------------

MAX_TEXT_LENGTH == 3000
MAX_TEXT_LENGTH_DEEP == 8000

MaxExtra == 1

ExtraPool == {Landing}

\* dict[key] = val on a list of entries: a known key keeps its place
Put(d, key, val) ==
    IF \E k \in 1..Len(d) : d[k].url = key
    THEN [k \in 1..Len(d) |-> IF d[k].url = key THEN [url |-> key, val |-> val] ELSE d[k]]
    ELSE Append(d, [url |-> key, val |-> val])

RECURSIVE Flatten(_)
Flatten(ss) == IF ss = <<>> THEN <<>> ELSE Head(ss) \o Flatten(Tail(ss))

\* `final_url or url`
Or(final_url, url) == IF final_url # <<>> THEN final_url ELSE url

text_limit == IF deep THEN MAX_TEXT_LENGTH_DEEP ELSE MAX_TEXT_LENGTH

level1_urls == <<root_url>> \o extra_urls

\* the for loop moves on to the next URL whatever fetch returned
NextUrl_retry(k, f) == IF Truthy(f) THEN k + 1 ELSE k

NextUrl(k, f) == k + 1

\* what the log keeps of a fetch result
Got(f) == IF f.none THEN "none" ELSE IF f.html = EmptyBody THEN "empty" ELSE "html"

NoPage == extract_page(EmptyBody, <<>>)

EmptyBucket == [present |-> FALSE, url |-> <<>>, snippets |-> <<>>,
                testimonials |-> <<>>, raw |-> <<>>]

NoData == [team |-> EmptyBucket, clients |-> EmptyBucket,
           pricing |-> EmptyBucket, api |-> EmptyBucket]

CrawlIdle ==
    /\ root_url = <<>> /\ extra_urls = <<>> /\ deep = FALSE
    /\ pc = "idle" /\ idx = 0
    /\ level1_pages = <<>> /\ pages_crawled = <<>>
    /\ all_emails = <<>> /\ all_headings = <<>> /\ all_text = <<>>
    /\ title = "" /\ meta_desc = "" /\ pages_raw = <<>>
    /\ unique_links = <<>> /\ level2_targets = <<>>
    /\ page = NoPage /\ level2_data = NoData
    /\ stdout = <<>> /\ exit_code = -1 /\ log = <<>>

Init ==
    /\ SelIdle /\ VerifyIdle
    /\ root_url = RootUrl
    /\ extra_urls \in SeqsUpTo(ExtraPool, MaxExtra)
    /\ deep \in BOOLEAN
    /\ pc = "level1" /\ idx = 1
    /\ level1_pages = <<>> /\ pages_crawled = <<>>
    /\ all_emails = <<>> /\ all_headings = <<>> /\ all_text = <<>>
    /\ title = "" /\ meta_desc = "" /\ pages_raw = <<>>
    /\ unique_links = <<>> /\ level2_targets = <<>>
    /\ page = NoPage /\ level2_data = NoData
    /\ stdout = <<>> /\ exit_code = -1 /\ log = <<>>

\* lines 236-241: one pass of the level 1 loop
Level1Fetch ==
    /\ pc = "level1" /\ idx <= Len(level1_urls)
    /\ \E r \in Responses(level1_urls[idx]) :
          LET url == level1_urls[idx]
              f   == fetch(r)
              key == Or(f.final_url, url)
          IN  /\ level1_pages' = IF Truthy(f)
                                 THEN Put(level1_pages, key, extract_page(f.html, key))
                                 ELSE level1_pages
              /\ log' = Append(log, [url |-> url, level |-> 1, got |-> Got(f),
                                     final |-> IF f.none THEN <<>> ELSE key,
                                     page |-> IF Truthy(f) THEN extract_page(f.html, key)
                                              ELSE NoPage])
              /\ idx' = NextUrl(idx, f)
    /\ UNCHANGED <<sel_vars, verify_vars, root_url, extra_urls, deep, pc, pages_crawled, all_emails,
                   all_headings, all_text, title, meta_desc, pages_raw, unique_links,
                   level2_targets, page, level2_data, stdout, exit_code>>

\* lines 243-245: no page at all, sys.exit(1)
Level1Fatal ==
    /\ pc = "level1" /\ idx > Len(level1_urls)
    /\ level1_pages = <<>>
    /\ pc' = "fatal"
    /\ exit_code' = 1
    /\ UNCHANGED <<sel_vars, verify_vars, root_url, extra_urls, deep, idx, level1_pages, pages_crawled,
                   all_emails, all_headings, all_text, title, meta_desc, pages_raw,
                   unique_links, level2_targets, page, level2_data, stdout, log>>

\* the first non-empty value of a field over the level 1 pages
RECURSIVE FirstNonEmpty(_)
FirstNonEmpty(values) ==
    IF values = <<>> THEN ""
    ELSE IF Head(values) # "" THEN Head(values)
    ELSE FirstNonEmpty(Tail(values))

\* all_text += " " + page["raw_text"], over the pages
RECURSIVE AddTexts(_, _)
AddTexts(text, raws) ==
    IF raws = <<>> THEN text
    ELSE AddTexts(text \o <<Space>> \o Head(raws), Tail(raws))

\* lines 272-278 keeping the stripped key as the link's URL
RECURSIVE unique_links_keyed(_, _, _)
unique_links_keyed(links, seen, unique) ==
    IF links = <<>> THEN unique
    ELSE LET l   == Head(links)
             key == RStripSlash(l.url)
         IN  IF key \notin seen /\ l.text # <<>>
             THEN unique_links_keyed(Tail(links), seen \cup {key},
                                     Append(unique, [text |-> l.text, url |-> key]))
             ELSE unique_links_keyed(Tail(links), seen, unique)

\* lines 272-278: deduplicate links
RECURSIVE unique_links_of(_, _, _)
unique_links_of(links, seen, unique) ==
    IF links = <<>> THEN unique
    ELSE LET l   == Head(links)
             key == RStripSlash(l.url)
         IN  IF key \notin seen /\ l.text # <<>>
             THEN unique_links_of(Tail(links), seen \cup {key}, Append(unique, l))
             ELSE unique_links_of(Tail(links), seen, unique)

\* pages_raw[url] = raw_text[:text_limit] over the level 1 pages
RECURSIVE RawOf(_, _)
RawOf(entries, raws) ==
    IF entries = <<>> THEN raws
    ELSE RawOf(Tail(entries),
               Put(raws, Head(entries).url, Take(Head(entries).val.raw_text, text_limit)))

\* lines 247-284: merge the level 1 pages, deduplicate, select the targets
Level1Merge ==
    /\ pc = "level1" /\ idx > Len(level1_urls)
    /\ level1_pages # <<>>
    /\ LET n     == Len(level1_pages)
           pages == [k \in 1..n |-> level1_pages[k].val]
           all_links == Flatten([k \in 1..n |-> pages[k].links])
           unique == unique_links_of(all_links, {}, <<>>)
       IN  /\ pages_crawled' = [k \in 1..n |-> level1_pages[k].url]
           /\ all_emails' = Flatten([k \in 1..n |-> pages[k].emails])
           /\ all_headings' = Flatten([k \in 1..n |-> pages[k].headings])
           /\ all_text' = AddTexts(<<>>, [k \in 1..n |-> pages[k].raw_text])
           /\ title' = FirstNonEmpty([k \in 1..n |-> pages[k].title])
           /\ meta_desc' = FirstNonEmpty([k \in 1..n |-> pages[k].meta_desc])
           /\ pages_raw' = IF deep THEN RawOf(level1_pages, <<>>) ELSE <<>>
           /\ unique_links' = unique
           /\ level2_targets' = select_level2_links(unique)
    /\ pc' = "level2"
    /\ idx' = 1
    /\ UNCHANGED <<sel_vars, verify_vars, root_url, extra_urls, deep, level1_pages, page,
                   level2_data, stdout, exit_code, log>>

Bucket(url, snippets, testimonials, raw) ==
    [present |-> TRUE, url |-> url, snippets |-> snippets,
     testimonials |-> testimonials, raw |-> raw]

\* line 308 reading the seed page's text
team_text_of_seed(p) == level1_pages[1].val.raw_text

\* line 308: the argument of extract_team_snippets
team_text(p) == p.raw_text

\* lines 301-332: file a level 2 page under the first category its link matches
Classify(data, link, p) ==
    LET combined     == Lower(link.text \o <<" ">> \o link.url)
        testimonials == extract_testimonial_snippets(p.raw_text)
        backfill     == IF testimonials # <<>> /\ ~data.clients.present
                        THEN Bucket(link.url, <<>>, testimonials, Take(p.raw_text, 500))
                        ELSE data.clients
    IN  IF keyword_match(combined, TEAM_KEYWORDS)
        THEN [data EXCEPT !.team = Bucket(link.url, extract_team_snippets(team_text(p)),
                                          <<>>, Take(p.raw_text, 1000)),
                          !.clients = backfill]
        ELSE IF keyword_match(combined, CLIENT_KEYWORDS)
        THEN [data EXCEPT !.clients = Bucket(link.url, <<>>, testimonials,
                                             Take(p.raw_text, 1000))]
        ELSE IF keyword_match(combined, PRICING_KEYWORDS)
        THEN [data EXCEPT !.pricing = Bucket(link.url, <<>>, <<>>, Take(p.raw_text, 500)),
                          !.clients = backfill]
        ELSE IF keyword_match(combined, API_KEYWORDS)
        THEN [data EXCEPT !.api = Bucket(link.url, <<>>, <<>>, Take(p.raw_text, 500))]
        ELSE data

\* lines 288-333: one pass of the level 2 loop
Level2Fetch ==
    /\ pc = "level2" /\ idx <= Len(level2_targets)
    /\ \E r \in Responses(level2_targets[idx].url) :
          LET link     == level2_targets[idx]
              f        == fetch(r)
              page_url == Or(f.final_url, link.url)
              p        == extract_page(f.html, page_url)
          IN  /\ log' = Append(log, [url |-> link.url, level |-> 2, got |-> Got(f),
                                     final |-> IF f.none THEN <<>> ELSE page_url,
                                     page |-> IF Truthy(f) THEN p ELSE NoPage])
              /\ idx' = NextUrl(idx, f)
              /\ IF Truthy(f)
                 THEN /\ page' = p
                      /\ pages_crawled' = Append(pages_crawled, page_url)
                      /\ all_emails' = all_emails \o p.emails
                      /\ all_text' = all_text \o <<Space>> \o p.raw_text
                      /\ all_headings' = all_headings \o p.headings
                      /\ pages_raw' = IF deep
                                      THEN Put(pages_raw, page_url, Take(p.raw_text, text_limit))
                                      ELSE pages_raw
                      /\ level2_data' = Classify(level2_data, link, p)
                 ELSE UNCHANGED <<page, pages_crawled, all_emails, all_text,
                                  all_headings, pages_raw, level2_data>>
    /\ UNCHANGED <<sel_vars, verify_vars, root_url, extra_urls, deep, pc, level1_pages, title,
                   meta_desc, unique_links, level2_targets, stdout, exit_code>>

nav_noise == << <<"l","o","g","i","n">>, <<"s","i","g","n","i","n">>, <<"s","i","g","n","-","i","n">>, <<"l","o","g","o","u","t">>, <<"c","a","r","t">>, <<"c","o","o","k","i","e">>,
                <<"p","r","i","v","a","c","y">>, <<"t","e","r","m","s">>, <<"j","a","v","a","s","c","r","i","p","t">> >>

\* lines 345-349 without the [:15]
important_links_uncapped(links) ==
    SelectSeq(links, LAMBDA l :
        ~keyword_match(Lower(l.url) \o <<" ">> \o Lower(l.text), nav_noise)
        /\ l.text # <<>>)

\* lines 345-349
important_links_of(links) ==
    Prefix(SelectSeq(links, LAMBDA l :
               ~keyword_match(Lower(l.url) \o <<" ">> \o Lower(l.text), nav_noise)
               /\ l.text # <<>>),
           15)

\* line 342 without the set()
FinalEmails_as_collected(emails) == emails

\* line 342: list(set(all_emails))
FinalEmails(emails) == Dedup(emails)

\* line 336: f"https://{domain}/llms.txt"
llms_txt_url == <<"https://">> \o urlparse(root_url).netloc \o <<"/","l","l","m","s",".","t","x","t">>

\* fetch_text_file: the body of a 200 response, else None
TextFileResults == {"None", "# Acme"}

\* line 360 on the text the record carries
pricing_text_summary == Take(all_text, text_limit)

\* line 360: the argument of detect_pricing
pricing_text == all_text

\* lines 351-371, before existing_llms_txt is filled in
Output ==
    [domain             |-> urlparse(root_url).netloc,
     title              |-> title,
     meta_desc          |-> meta_desc,
     headings           |-> Prefix(all_headings, 20),
     raw_text_summary   |-> Take(all_text, text_limit),
     emails             |-> FinalEmails(all_emails),
     important_links    |-> important_links_of(unique_links),
     pricing_found      |-> detect_pricing(pricing_text),
     pricing_data       |-> level2_data.pricing,
     api_found          |-> level2_data.api.present,
     api_data           |-> level2_data.api,
     team_found         |-> level2_data.team.present /\ level2_data.team.snippets # <<>>,
     team_data          |-> level2_data.team,
     testimonials_found |-> level2_data.clients.present
                              /\ level2_data.clients.testimonials # <<>>,
     testimonials_data  |-> level2_data.clients,
     existing_llms_txt  |-> "None",
     pages_crawled      |-> pages_crawled,
     deep               |-> deep,
     pages_raw          |-> pages_raw]

\* lines 335-377 and 395-396: probe for llms.txt, assemble and print the record
Finish ==
    /\ pc = "level2" /\ idx > Len(level2_targets)
    /\ \E existing_llms_txt \in TextFileResults :
          /\ log' = Append(log, [url |-> llms_txt_url, level |-> 3,
                                 got |-> IF existing_llms_txt = "None"
                                         THEN "none" ELSE "text",
                                 final |-> <<>>, page |-> NoPage])
          /\ stdout' = Append(stdout,
                [Output EXCEPT !.existing_llms_txt = existing_llms_txt])
    /\ pc' = "done"
    /\ exit_code' = 0
    /\ UNCHANGED <<sel_vars, verify_vars, root_url, extra_urls, deep, idx, level1_pages, pages_crawled,
                   all_emails, all_headings, all_text, title, meta_desc, pages_raw,
                   unique_links, level2_targets, page, level2_data>>

Next == Level1Fetch \/ Level1Fatal \/ Level1Merge \/ Level2Fetch \/ Finish

Spec == Init /\ [][Next]_vars

\* ------------------------------------------------------------------------
\* select_level2_links on its own, over every short list of these links
\* ------------------------------------------------------------------------

MaxLinks == 3

Link(text, url) == [text |-> text, url |-> url]

LinkPool == {
    Link(<<"O","u","r"," ","T","e","a","m">>,  <<"https://">> \o <<"x",".","c","o","m","/","a","b","o","u","t","/","t","e","a","m">>),
    Link(<<"A","b","o","u","t">>,     <<"https://">> \o <<"x",".","c","o","m","/","A","b","o","u","t">>),
    Link(<<"T","e","a","m">>,      <<"https://">> \o <<"x",".","c","o","m","/","t","e","a","m">>),
    Link(<<"P","r","i","c","i","n","g">>,   <<"https://">> \o <<"x",".","c","o","m","/","p">>),
    Link(<<"A","b","o","u","t"," ","u","s">>,  <<"https://">> \o <<"x",".","c","o","m","/">>),
    Link(<<"T","e","a","m">>,      <<"https://">> \o <<"x",".","c","o","m","/","#","t","e","a","m">>),
    Link(<<"P","l","a","n","s">>,     <<"https://">> \o <<"x",".","c","o","m","#","p","l","a","n","s">>),
    Link(<<"C","u","s","t","o","m","e","r","s">>, <<"https://">> \o <<"x",".","c","o","m","/","a","b","o","u","t","/","c","u","s","t","o","m","e","r","s">>),
    Link(<<"R","e","v","i","e","w","s">>,   <<"https://">> \o <<"x",".","c","o","m","/","t","e","a","m","/","r","e","v","i","e","w","s">>),
    Link(<<"A","P","I"," ","D","o","c","s">>,  <<"https://">> \o <<"d","o","c","s",".","x",".","c","o","m","/","a","p","i">>) }

InitSel ==
    /\ CrawlIdle /\ VerifyIdle
    /\ sel_links \in SeqsUpTo(LinkPool, MaxLinks)
    /\ sel_st = EmptySelection
    /\ sel_cat = 1
    /\ sel_chosen = <<>>

\* one pass of `for category_keywords in [...]`
SelectCategory ==
    /\ sel_cat <= Len(CATEGORIES)
    /\ sel_st' = select_step(sel_st, sel_links, CATEGORIES[sel_cat])
    /\ sel_chosen' = IF Len(sel_st'.selected) > Len(sel_st.selected)
                     THEN Append(sel_chosen, sel_cat)
                     ELSE sel_chosen
    /\ sel_cat' = sel_cat + 1
    /\ UNCHANGED <<sel_links, crawl_vars, verify_vars>>

NextSel == SelectCategory

SpecSel == InitSel /\ [][NextSel]_vars

SelDone == sel_cat > Len(CATEGORIES)


\* ------------------------------------------------------------------------
\* deploy.py: verify_live and detect_cms
\* ------------------------------------------------------------------------

Sig(id, header, value, name) == [id |-> id, header |-> header, value |-> value, name |-> name]

\* CMS_SIGNATURES, in the order of the dict
CMS_SIGNATURES == <<
    Sig("framer",      <<"s","e","r","v","e","r">>,       <<"f","r","a","m","e","r">>,      "Framer"),
    Sig("webflow",     <<"x","-","w","f","-">>,        <<>>,            "Webflow"),
    Sig("squarespace", <<"s","e","r","v","e","r">>,       <<"s","q","u","a","r","e","s","p","a","c","e">>, "Squarespace"),
    Sig("shopify",     <<"s","e","r","v","e","r">>,       <<"s","h","o","p","i","f","y">>,     "Shopify"),
    Sig("ghost",       <<"s","e","r","v","e","r">>,       <<"g","h","o","s","t">>,       "Ghost"),
    Sig("wordpress",   <<"x","-","p","o","w","e","r","e","d","-","b","y">>, <<"w","o","r","d","p","r","e","s","s">>,   "WordPress") >>

\* a headers dict is a list of entries, one per key
Header(k, v) == [k |-> k, v |-> v]

\* {k.lower(): v.lower() for k, v in headers.items()}
headers_lower(headers) ==
    [n \in 1..Len(headers) |-> Header(Lower(headers[n].k), Lower(headers[n].v))]

\* the loop of detect_cms from the n-th signature on; "None" for None
RECURSIVE detect_from(_, _)
detect_from(lowered, n) ==
    IF n > Len(CMS_SIGNATURES) THEN "None"
    ELSE LET sig == CMS_SIGNATURES[n]
             h   == Lower(sig.header)
             v   == Lower(sig.value)
         IN  IF \E e \in Range(lowered) : e.k = h /\ (v = <<>> \/ Contains(v, e.v))
             THEN sig.name
             ELSE IF sig.id = "webflow"
                     /\ \E e \in Range(lowered) : StartsWith(e.k, <<"x","-","w","f","-">>)
             THEN sig.name
             ELSE detect_from(lowered, n + 1)

\* detect_cms(headers)
detect_cms(headers) == detect_from(headers_lower(headers), 1)

Whitespace == {" ", "\t", "\n", "\r"}

RECURSIVE lstrip(_)
lstrip(s) == IF s # <<>> /\ Head(s) \in Whitespace THEN lstrip(Tail(s)) ELSE s

RECURSIVE rstrip(_)
rstrip(s) ==
    IF s # <<>> /\ s[Len(s)] \in Whitespace THEN rstrip(SubSeq(s, 1, Len(s) - 1)) ELSE s

\* r.text taken as it is
strip_nothing(s) == s

\* str.strip()
strip(s) == rstrip(lstrip(s))

\* line 484: the test that ends the loop
LooksLive(r) == r.status_code = 200 /\ StartsWith(strip(r.text), <<"#">>)

\* the default of the `retries` parameter
DefaultRetries == 8

MaxRetries == 2

\* bodies and headers the site can answer /llms.txt with
Bodies == { <<>>, <<"#"," ","A","c","m","e">>, <<"\n">> \o <<"#"," ","A","c","m","e"," ">>, <<"<","h","t","m","l",">">>, <<"N","o","t"," ","#"," ","h","e","r","e">> }

HeaderSets == {
    <<>>,
    << Header(<<"s","e","r","v","e","r">>, <<"c","l","o","u","d","f","l","a","r","e">>) >>,
    << Header(<<"S","e","r","v","e","r">>, <<"F","r","a","m","e","r","/","1">>) >>,
    << Header(<<"s","e","r","v","e","r">>, <<"S","h","o","p","i","f","y">>), Header(<<"X","-","W","f","-","S","i","t","e">>, <<"a","1">>) >>,
    << Header(<<"x","-","p","o","w","e","r","e","d","-","b","y">>, <<"W","o","r","d","P","r","e","s","s"," ","6">>) >> }

\* what one httpx.get of verify_live can give: an exception or a response
Gets == {Raised} \cup {Response(s, t, h) : s \in {200, 404}, t \in Bodies, h \in HeaderSets}

InitVerify ==
    /\ SelIdle /\ CrawlIdle
    /\ verify_retries \in (0..MaxRetries) \cup {DefaultRetries}
    /\ verify_pc = "loop" /\ verify_i = 0
    /\ last_headers = <<>> /\ verify_result = NoResult
    /\ verify_last = Raised /\ verify_requests = 0

\* lines 480-494: one pass of the loop
Attempt ==
    /\ verify_pc = "loop" /\ verify_i < verify_retries
    /\ \E r \in Gets :
          /\ verify_last' = r
          /\ verify_requests' = verify_requests + 1
          /\ verify_i' = verify_i + 1
          /\ last_headers' = IF r.raised THEN last_headers ELSE r.headers
          /\ IF ~r.raised /\ LooksLive(r)
             THEN /\ verify_pc' = "returned"
                  /\ verify_result' =
                        IF detect_cms(r.headers) # "None"
                        THEN [success |-> FALSE, cms |-> detect_cms(r.headers)]
                        ELSE [success |-> TRUE, cms |-> "None"]
             ELSE UNCHANGED <<verify_pc, verify_result>>
    /\ UNCHANGED <<sel_vars, crawl_vars, verify_retries>>

\* lines 495-496: the loop is over
GiveUp ==
    /\ verify_pc = "loop" /\ verify_i >= verify_retries
    /\ verify_pc' = "returned"
    /\ verify_result' = [success |-> FALSE, cms |-> detect_cms(last_headers)]
    /\ UNCHANGED <<sel_vars, crawl_vars, verify_retries, verify_i, last_headers,
                   verify_last, verify_requests>>

NextVerify == Attempt \/ GiveUp

\* each pass ends: httpx.get has a timeout and sleep returns
SpecVerify == InitVerify /\ [][NextVerify]_vars /\ WF_vars(NextVerify)
\* ------------------------------------------------------------------------
\* Properties of select_level2_links and score_link (SpecSel)
\* ------------------------------------------------------------------------

PathOf(link) == Lower(urlparse(link.url).path)

\* the keywords of a list that occur in the lower-cased path / text of a link
PathMatches(link, keywords) ==
    {k \in 1..Len(keywords) : Contains(keywords[k], PathOf(link))}

TextMatches(link, keywords) ==
    {k \in 1..Len(keywords) : Contains(keywords[k], Lower(link.text))}

SelectedUrls == {sel_st.selected[i].url : i \in 1..Len(sel_st.selected)}

\* C1: select_level2_links returns at most 4 links, each with a positive score
\* for the category that chose it, in team, clients, pricing, api order of the
\* choosing categories, and with no URL twice.
C1_SelectionShape ==
    /\ Len(sel_st.selected) <= 4
    /\ Len(sel_chosen) = Len(sel_st.selected)
    /\ \A i \in 1..Len(sel_st.selected) :
          score_link(sel_st.selected[i], CATEGORIES[sel_chosen[i]]) > 0
    /\ \A i, j \in 1..Len(sel_st.selected) :
          i < j => /\ sel_chosen[i] < sel_chosen[j]
                   /\ sel_st.selected[i].url # sel_st.selected[j].url

\* a finished selection in which the top candidate of a later category was the
\* URL an earlier category had already taken
C1_Witness ==
    /\ SelDone
    /\ Len(sel_st.selected) >= 2
    /\ \E c \in 2..Len(CATEGORIES) :
          LET scored == ScoredFor(sel_links, CATEGORIES[c])
          IN  /\ scored # <<>>
              /\ scored[1].link.url \in SelectedUrls
              /\ \A i \in 1..Len(sel_chosen) : sel_chosen[i] # c

\* C2 as stated: the score the last pass gave each link is 2 x (keywords in the
\* path) + 1 x (keywords in the text), also for a keyword that occurs in both.
C2_ScoreCountsBoth ==
    \A i \in 1..Len(sel_links) : \A c \in {sel_cat - 1} \cap 1..Len(CATEGORIES) :
        score_link(sel_links[i], CATEGORIES[c])
          = 2 * Cardinality(PathMatches(sel_links[i], CATEGORIES[c]))
            + Cardinality(TextMatches(sel_links[i], CATEGORIES[c]))

\* C2 amended: the score the last pass gave each link is 2 x (keywords in the
\* path) + 1 x (keywords in the text that are not in the path); a keyword in
\* both counts 2, not 3.
C2_ScoreTextOnlyWhenNotInPath ==
    \A i \in 1..Len(sel_links) : \A c \in {sel_cat - 1} \cap 1..Len(CATEGORIES) :
        score_link(sel_links[i], CATEGORIES[c])
          = 2 * Cardinality(PathMatches(sel_links[i], CATEGORIES[c]))
            + Cardinality(TextMatches(sel_links[i], CATEGORIES[c])
                            \ PathMatches(sel_links[i], CATEGORIES[c]))

\* a scored link with one keyword in both its path and its text, and another
\* in its text alone
C2_Witness ==
    \E i \in 1..Len(sel_links) : \E c \in {sel_cat - 1} \cap 1..Len(CATEGORIES) :
          /\ PathMatches(sel_links[i], CATEGORIES[c])
               \cap TextMatches(sel_links[i], CATEGORIES[c]) # {}
          /\ TextMatches(sel_links[i], CATEGORIES[c])
               \ PathMatches(sel_links[i], CATEGORIES[c]) # {}

IsRootPath(url) == urlparse(url).path \in {<<"/">>, <<>>}

\* C3 as stated: no returned link has the bare root path, with or without a
\* fragment.
C3_NoRootPathSelected ==
    \A i \in 1..Len(sel_st.selected) : ~IsRootPath(sel_st.selected[i].url)

\* C3 amended: no returned link has a non-empty fragment on the bare root
\* path; a root-path link without a fragment can be returned.
C3_NoRootAnchorSelected ==
    \A i \in 1..Len(sel_st.selected) :
        ~(urlparse(sel_st.selected[i].url).fragment # <<>>
          /\ IsRootPath(sel_st.selected[i].url))

\* a finished selection whose input had a root-path fragment link as the top
\* candidate of a category, with nothing selected for that category
C3_Witness ==
    /\ SelDone
    /\ \E c \in 1..Len(CATEGORIES) :
          LET scored == ScoredFor(sel_links, CATEGORIES[c])
          IN  /\ scored # <<>>
              /\ urlparse(scored[1].link.url).fragment # <<>>
              /\ urlparse(scored[1].link.url).path = <<>>
              /\ \A i \in 1..Len(sel_chosen) : sel_chosen[i] # c

\* position of the first occurrence of a link in the input list
FirstPos(link) == CHOOSE p \in 1..Len(sel_links) :
    sel_links[p] = link /\ \A q \in 1..(p - 1) : sel_links[q] # link

\* C4: the link chosen for a category has the maximal positive score for that
\* category, and every link before it in the input scores strictly less.
C4_BestAndFirst ==
    \A i \in 1..Len(sel_st.selected) :
        LET kws  == CATEGORIES[sel_chosen[i]]
            best == score_link(sel_st.selected[i], kws)
        IN  /\ best > 0
            /\ \A p \in 1..Len(sel_links) : score_link(sel_links[p], kws) <= best
            /\ \A p \in 1..(FirstPos(sel_st.selected[i]) - 1) :
                  score_link(sel_links[p], kws) < best

\* a category for which two different links tie at the top score, the earlier
\* one chosen
C4_Witness ==
    /\ SelDone
    /\ \E i \in 1..Len(sel_st.selected) : \E p \in 1..Len(sel_links) :
          /\ sel_links[p] # sel_st.selected[i]
          /\ p > FirstPos(sel_st.selected[i])
          /\ score_link(sel_links[p], CATEGORIES[sel_chosen[i]])
               = score_link(sel_st.selected[i], CATEGORIES[sel_chosen[i]])


\* the position in the input of the top candidate of a category: the first of
\* the links with the highest positive score; 0 when no link scores
TopPos(c) ==
    LET sc  == [p \in 1..Len(sel_links) |-> score_link(sel_links[p], CATEGORIES[c])]
        pos == {p \in 1..Len(sel_links) : sc[p] > 0}
    IN  IF pos = {} THEN 0
        ELSE CHOOSE p \in pos : \A q \in pos : sc[q] < sc[p] \/ (sc[q] = sc[p] /\ q >= p)

\* the links selected by a category
ChosenBy(c) == {i \in 1..Len(sel_chosen) : sel_chosen[i] = c}

\* the URLs taken by the categories before c
TakenBefore(c) == {sel_st.selected[i].url : i \in {j \in 1..Len(sel_chosen) : sel_chosen[j] < c}}

\* a fragment link on the root path, or a URL an earlier category took
Refused(link, c) ==
    \/ urlparse(link.url).fragment # <<>> /\ urlparse(link.url).path \in {<<"/">>, <<>>}
    \/ link.url \in TakenBefore(c)

\* C17: the pass of a category looks at its top candidate only: when that
\* candidate is refused the category adds no link, whatever else scores for
\* it; otherwise it adds exactly that candidate. A category adds at most one
\* link.
C17_TopCandidateOnly ==
    \A c \in {sel_cat - 1} \cap 1..Len(CATEGORIES) :
        LET top == TopPos(c)
        IN  /\ Cardinality(ChosenBy(c)) <= 1
            /\ top = 0 => ChosenBy(c) = {}
            /\ (top # 0 /\ Refused(sel_links[top], c)) => ChosenBy(c) = {}
            /\ (top # 0 /\ ~Refused(sel_links[top], c))
                  => \E i \in ChosenBy(c) : sel_st.selected[i] = sel_links[top]

\* a finished selection in which a category added nothing because an earlier
\* category had taken its top candidate, although another link scored for it
\* and would have been accepted, so that fewer links are selected than there
\* are categories with a candidate
C17_Witness ==
    /\ SelDone
    /\ \E c \in 2..Len(CATEGORIES) :
          /\ TopPos(c) # 0
          /\ sel_links[TopPos(c)].url \in TakenBefore(c)
          /\ ChosenBy(c) = {}
          /\ \E p \in 1..Len(sel_links) :
                /\ score_link(sel_links[p], CATEGORIES[c]) > 0
                /\ ~Refused(sel_links[p], c)
                /\ sel_links[p].url \notin SelectedUrls
    /\ Len(sel_st.selected) < Cardinality({c \in 1..Len(CATEGORIES) : TopPos(c) # 0})
\* ------------------------------------------------------------------------
\* Properties of crawl (Spec)
\* ------------------------------------------------------------------------

LogOf(level) == SelectSeq(log, LAMBDA e : e.level = level)

UrlsOf(entries) == [k \in 1..Len(entries) |-> entries[k].url]

Level1Over == Len(LogOf(1)) = Len(level1_urls)

\* a level 1 fetch succeeded when fetch returned a body rather than (None, None)
SomeLevel1Succeeded == \E k \in 1..Len(LogOf(1)) : LogOf(1)[k].got # "none"

\* C5: when every level 1 fetch failed the run ends fatally, with a non-zero
\* exit, no record, no level 2 fetch and no llms.txt probe; when a level 1
\* fetch succeeded the run does not end fatally and prints exactly one record.
C5_FatalIffAllLevel1Failed ==
    /\ (Level1Over /\ ~SomeLevel1Succeeded /\ pc # "level1")
          => /\ pc = "fatal" /\ exit_code # 0 /\ stdout = <<>>
             /\ LogOf(2) = <<>> /\ LogOf(3) = <<>>
    /\ SomeLevel1Succeeded => pc # "fatal"
    /\ (SomeLevel1Succeeded /\ pc = "done") => Len(stdout) = 1 /\ exit_code = 0
    /\ pc # "done" => stdout = <<>>

\* the e-mail lists produced so far: of each extracted page, and of the record
EmailLists ==
    {level1_pages[k].val.emails : k \in 1..Len(level1_pages)}
        \cup {page.emails}
        \cup {stdout[k].emails : k \in 1..Len(stdout)}

Denylisted(e) == \E x \in EmailDenylist : Contains(x, Lower(e))

\* C6 as stated: no e-mail list holds a denylisted address, nor two addresses
\* that are equal after case folding.
C6_EmailsCaseFoldedUnique ==
    \A es \in EmailLists :
        /\ \A k \in 1..Len(es) : ~Denylisted(es[k])
        /\ \A k, m \in 1..Len(es) : k < m => Lower(es[k]) # Lower(es[m])

\* C6 amended: no e-mail list holds a denylisted address, nor the same
\* address twice; addresses that differ only in case are both kept.
C6_EmailsExactUnique ==
    \A es \in EmailLists :
        /\ \A k \in 1..Len(es) : ~Denylisted(es[k])
        /\ \A k, m \in 1..Len(es) : k < m => es[k] # es[m]

\* a record whose pages together gave one address more than once, and a page
\* whose HTML held denylisted addresses
C6_Witness ==
    /\ pc = "done"
    /\ \E k, m \in 1..Len(all_emails) : k < m /\ all_emails[k] = all_emails[m]
    /\ \E k, m \in 1..Len(stdout[1].emails) :
          k < m /\ Lower(stdout[1].emails[k]) = Lower(stdout[1].emails[m])

SeedApex == ApexDomain(urlparse(root_url).netloc)

LinkApex(l) == ApexDomain(urlparse(l.url).netloc)

\* an absolute URL on the given apex domain
AbsoluteOn(l, apexes) ==
    LET parsed == urlparse(l.url)
    IN  /\ parsed.scheme \in Schemes /\ parsed.netloc # <<>>
        /\ ApexDomain(parsed.netloc) \in apexes

PageApex(url) == ApexDomain(urlparse(url).netloc)

\* the links the run holds: of each level 1 page, of the last level 2 page,
\* the deduplicated list, the level 2 targets, and the record's important_links
HeldLinks ==
    UNION {Range(level1_pages[k].val.links) : k \in 1..Len(level1_pages)}
        \cup Range(page.links)
        \cup Range(unique_links)
        \cup Range(level2_targets)
        \cup UNION {Range(stdout[k].important_links) : k \in 1..Len(stdout)}

\* C7 as stated: every collected link is absolute and has the apex domain of
\* the seed URL.
C7_LinksOnSeedApex ==
    \A l \in HeldLinks : AbsoluteOn(l, {SeedApex})

\* C7 amended: every link is absolute and has the apex domain of the final URL
\* of the page it was extracted from (which is the seed's only when that page
\* was served from the seed's apex domain).
C7_LinksOnPageApex ==
    /\ \A k \in 1..Len(level1_pages) :
          LET apex == {PageApex(level1_pages[k].url)}
          IN  \A l \in Range(level1_pages[k].val.links) : AbsoluteOn(l, apex)
    /\ page.links # <<>> =>
          LET apex == {PageApex(pages_crawled[Len(pages_crawled)])}
          IN  \A l \in Range(page.links) : AbsoluteOn(l, apex)
    /\ LET apexes == {PageApex(level1_pages[k].url) : k \in 1..Len(level1_pages)}
       IN  \A l \in Range(unique_links) \cup Range(level2_targets)
                     \cup UNION {Range(stdout[k].important_links) : k \in 1..Len(stdout)} :
              AbsoluteOn(l, apexes)

\* a finished run whose seed was redirected to another apex domain, with a
\* level 2 target and an important link there
C7_Witness ==
    /\ pc = "done"
    /\ \E l \in Range(level2_targets) : LinkApex(l) # SeedApex
    /\ \E l \in Range(stdout[1].important_links) : LinkApex(l) # SeedApex
    /\ \E k \in 1..Len(log) : log[k].level = 2 /\ log[k].got = "html"

Level1LinkUrls ==
    UNION {{l.url : l \in Range(level1_pages[k].val.links)} : k \in 1..Len(level1_pages)}

Count(entries, got) == Len(SelectSeq(entries, LAMBDA e : e.got = got))

Buckets == {level2_data.team, level2_data.clients, level2_data.pricing, level2_data.api}

\* C9: every level 1 URL and every level 2 target is requested once, in order,
\* whatever came back; a fetch that gave no page adds none; a category record
\* is written only from a level 2 page that was fetched; there are as many
\* level 2 requests as targets, at most 4.
C9_EachUrlRequestedOnce ==
    /\ UrlsOf(LogOf(1)) = Prefix(level1_urls, Len(LogOf(1)))
    /\ UrlsOf(LogOf(2))
         = Prefix(UrlsOf(level2_targets), Len(LogOf(2)))
    /\ Len(log) = Len(LogOf(1)) + Len(LogOf(2)) + Len(LogOf(3))
    /\ Len(level2_targets) <= 4
    /\ pc \in {"fatal", "level2", "done"} => Len(LogOf(1)) = Len(level1_urls)
    /\ pc = "done" => Len(LogOf(2)) = Len(level2_targets)
    /\ Len(level1_pages) <= Count(LogOf(1), "html")
    /\ pc \in {"level2", "done"}
          => Len(pages_crawled) = Len(level1_pages) + Count(LogOf(2), "html")
    /\ \A b \in Buckets :
          b.present => \E k \in 1..Len(log) :
                          log[k].level = 2 /\ log[k].got = "html" /\ log[k].url = b.url

\* a finished run in which a level 1 fetch and a level 2 fetch failed, and a
\* later level 2 fetch gave a page
C9_Witness ==
    /\ pc = "done"
    /\ Count(LogOf(1), "none") > 0
    /\ \E k, m \in 1..Len(log) :
          /\ k < m
          /\ log[k].level = 2 /\ log[k].got = "none"
          /\ log[m].level = 2 /\ log[m].got = "html"

\* C10: in every record, headings has at most 20 entries, important_links at
\* most 15, none with a navigation-noise keyword in its URL or text and none
\* with empty text, and raw_text_summary has at most 3000 characters in fast
\* mode and 8000 in deep mode.
C10_RecordSizes ==
    \A k \in 1..Len(stdout) :
        LET o == stdout[k]
        IN  /\ Len(o.headings) <= 20
            /\ Len(o.important_links) <= 15
            /\ \A l \in Range(o.important_links) :
                  LET url  == Lower(l.url)
                      text == Lower(l.text)
                  IN  /\ l.text # <<>>
                      /\ \A n \in 1..Len(nav_noise) :
                            ~Contains(nav_noise[n], url) /\ ~Contains(nav_noise[n], text)
            /\ TextLen(o.raw_text_summary) <= IF o.deep THEN 8000 ELSE 3000

\* a fast-mode record cut in all three places: more than 20 headings, more
\* than 15 eligible links and more than 3000 characters were collected
C10_Witness ==
    /\ pc = "done" /\ ~deep
    /\ Len(all_headings) > 20
    /\ Len(important_links_uncapped(unique_links)) > 15
    /\ Len(unique_links) > Len(important_links_uncapped(unique_links))
    /\ TextLen(all_text) > 3000
    /\ TextLen(stdout[1].raw_text_summary) = 3000

\* ------------------------------------------------------------------------
\* Properties of the aggregation (Spec)
\* ------------------------------------------------------------------------

\* the level 1 and level 2 fetches that returned a body rather than (None, None)
Fetched == SelectSeq(log, LAMBDA e : e.level \in {1, 2} /\ e.got # "none")

FinalsOf(entries) == [k \in 1..Len(entries) |-> entries[k].final]

\* C11: once the level 1 pages are merged, pages_crawled is the list of the
\* final URLs of the fetches that succeeded so far, one entry per fetch, in
\* the order of the fetches (level 1 in seed/extra order, then level 2 in
\* selection order), also when two level 1 URLs end at the same final URL;
\* the record carries that list.
C11_PagesCrawledPerFetch ==
    /\ pc \in {"level2", "done"} => pages_crawled = FinalsOf(Fetched)
    /\ \A k \in 1..Len(stdout) : stdout[k].pages_crawled = FinalsOf(Fetched)

\* the body text of the pages the run crawled: the level 1 pages it merged and
\* the level 2 pages it extracted
CrawledTexts ==
    {level1_pages[k].val.raw_text : k \in 1..Len(level1_pages)}
        \cup {log[k].page.raw_text :
                k \in {m \in 1..Len(log) : log[m].level = 2 /\ log[m].got = "html"}}

JaneDoe == <<"J","a","n","e"," ","D","o","e",","," ","C","E","O">>

TextContains(t, s) == \E k \in 1..Len(Norm(t)) : Contains(s, Norm(t)[k].lit)

OurTeamLink(l) == l.text = <<"O","u","r"," ","T","e","a","m">> /\ urlparse(l.url).path = <<"/","a","b","o","u","t","/","t","e","a","m">>

\* the seed was fetched with a page that links "Our Team" -> /about/team and
\* whose body text contains "Jane Doe, CEO"
SeedHasTeamLinkAndName ==
    /\ log # <<>> /\ log[1].got = "html"
    /\ \E l \in Range(log[1].page.links) : OurTeamLink(l)
    /\ TextContains(log[1].page.raw_text, JaneDoe)

\* the level 2 requests so far that gave a page filed under team, as
\* positions in level2_targets
TeamFetches ==
    LET fetches == LogOf(2)
    IN  {k \in 1..Len(fetches) :
            /\ fetches[k].got = "html"
            /\ keyword_match(Lower(level2_targets[k].text \o <<" ">> \o level2_targets[k].url),
                             TEAM_KEYWORDS)}

\* the page of the last of them
LastTeamPage ==
    LET team == TeamFetches
    IN  LogOf(2)[CHOOSE k \in team : \A m \in team : m <= k].page

CategoryOf(link) ==
    LET combined == Lower(link.text \o <<" ">> \o link.url)
        matching == {c \in 1..Len(CATEGORIES) : keyword_match(combined, CATEGORIES[c])}
    IN  IF matching = {} THEN 0
        ELSE CHOOSE c \in matching : \A d \in matching : c <= d

Records == <<level2_data.team, level2_data.clients, level2_data.pricing, level2_data.api>>

\* C14: every level 2 fetch that succeeded has a link that matches a category,
\* and the record of the first category it matches is written, carrying the
\* URL of the last fetched link of that category; a team, pricing or api
\* record exists only if a fetched link has that category as its first match.
C14_EachPageInOneCategory ==
    LET fetches == LogOf(2)
        cats    == [k \in 1..Len(fetches) |-> CategoryOf(level2_targets[k])]
        done    == {k \in 1..Len(fetches) : fetches[k].got # "none"}
    IN  /\ \A k \in done :
              /\ cats[k] \in 1..Len(CATEGORIES)
              /\ Records[cats[k]].present
              /\ (\A m \in done : m > k => cats[m] # cats[k])
                    => Records[cats[k]].url = level2_targets[k].url
        /\ \A c \in {1, 3, 4} : Records[c].present => \E k \in done : cats[k] = c

\* the level 2 fetches so far that backfilled the clients record: a page
\* filed under team or pricing that yields a testimonial, with no clients
\* record written by an earlier fetch
Backfills ==
    LET fetches == LogOf(2)
        got     == {k \in 1..Len(fetches) : fetches[k].got = "html"}
        cats    == [k \in 1..Len(fetches) |-> CategoryOf(level2_targets[k])]
        quoted  == {k \in got : extract_testimonial_snippets(fetches[k].page.raw_text) # <<>>}
        writes  == {k \in got : cats[k] = 2 \/ (cats[k] \in {1, 3} /\ k \in quoted)}
    IN  {k \in quoted : cats[k] \in {1, 3} /\ \A j \in writes : j >= k}

\* C15: once a team or pricing page has backfilled the clients record with its
\* testimonials, the clients record keeps testimonials for the rest of the
\* run, and the record printed has testimonials_found = true.
C15_BackfillKept ==
    Backfills # {} =>
        /\ level2_data.clients.present
        /\ level2_data.clients.testimonials # <<>>
        /\ \A k \in 1..Len(stdout) : stdout[k].testimonials_found

\* the categories, in order, whose pass of select_level2_links added a link:
\* entry k is the category that chose target k
RECURSIVE chosen_from(_, _, _)
chosen_from(st, links, c) ==
    IF c > Len(CATEGORIES) THEN <<>>
    ELSE LET next == select_step(st, links, CATEGORIES[c])
         IN  (IF Len(next.selected) > Len(st.selected) THEN <<c>> ELSE <<>>)
                 \o chosen_from(next, links, c + 1)

\* C16: the record of the category that chose a level 2 target carries that
\* target's URL from the moment its page is fetched to the end of the run: the
\* page is filed under the category that chose it, and no later page
\* overwrites that record.
C16_RecordedWhereChosen ==
    LET fetches == LogOf(2)
        chosen  == chosen_from(EmptySelection, unique_links, 1)
    IN  \A k \in 1..Len(fetches) :
            fetches[k].got # "none" =>
                /\ Records[chosen[k]].present
                /\ Records[chosen[k]].url = level2_targets[k].url


\* ------------------------------------------------------------------------
\* Properties of verify_live (SpecVerify)
\* ------------------------------------------------------------------------

Returned == verify_pc = "returned"

\* the last httpx.get gave HTTP 200 with a body whose first character is '#'
LastHashFirst ==
    /\ ~verify_last.raised /\ verify_last.status_code = 200
    /\ verify_last.text # <<>> /\ verify_last.text[1] = "#"

\* the last httpx.get gave HTTP 200 with a body that starts with '#' once the
\* white space around it is removed
LastHashStripped ==
    /\ ~verify_last.raised /\ verify_last.status_code = 200
    /\ LET t == verify_last.text
           first == {p \in 1..Len(t) : t[p] \notin Whitespace}
       IN  first # {} /\ t[CHOOSE p \in first : \A q \in first : p <= q] = "#"

\* the CMS whose signature the headers carry, "None" when there is none
CmsOf(headers) ==
    LET has(k, v) == \E e \in Range(headers) : Lower(e.k) = k /\ Contains(v, Lower(e.v))
        server(v) == has(<<"s","e","r","v","e","r">>, v)
    IN  IF server(<<"f","r","a","m","e","r">>) THEN "Framer"
        ELSE IF \E e \in Range(headers) : StartsWith(Lower(e.k), <<"x","-","w","f","-">>) THEN "Webflow"
        ELSE IF server(<<"s","q","u","a","r","e","s","p","a","c","e">>) THEN "Squarespace"
        ELSE IF server(<<"s","h","o","p","i","f","y">>) THEN "Shopify"
        ELSE IF server(<<"g","h","o","s","t">>) THEN "Ghost"
        ELSE IF has(<<"x","-","p","o","w","e","r","e","d","-","b","y">>, <<"w","o","r","d","p","r","e","s","s">>) THEN "WordPress"
        ELSE "None"

\* at most `retries` requests, and none after the return
RequestsBounded ==
    /\ verify_requests <= verify_retries
    /\ verify_requests = verify_i

\* the return that follows the last pass of the loop
ExhaustedReturn ==
    (Returned /\ ~verify_result.success /\ ~LastHashStripped)
        => /\ verify_requests = verify_retries
           /\ verify_result.cms = CmsOf(last_headers)

\* C18 as stated: verify_live makes at most `retries` requests and returns;
\* it returns (True, None) only after a request that gave HTTP 200, a body
\* whose first character is '#' and headers without a CMS signature; a
\* request that gives HTTP 200, such a body and headers with a CMS signature
\* ends the loop there with (False, cms); after the last pass it returns
\* (False, cms of the last response headers or None).
C18_VerifyHashFirst ==
    /\ [](/\ RequestsBounded
          /\ (Returned /\ verify_result.success)
                => /\ verify_result.cms = "None"
                   /\ LastHashFirst /\ CmsOf(verify_last.headers) = "None"
          /\ (LastHashFirst /\ CmsOf(verify_last.headers) # "None")
                => /\ Returned
                   /\ verify_result = [success |-> FALSE,
                                       cms |-> CmsOf(verify_last.headers)]
          /\ (Returned /\ ~verify_result.success /\ ~LastHashFirst)
                => /\ verify_requests = verify_retries
                   /\ verify_result.cms = CmsOf(last_headers))
    /\ <>Returned

\* C18 amended: the same with "a body that starts with '#' once leading and
\* trailing white space is removed" in place of "a body whose first character
\* is '#'"; and every request that gives HTTP 200 and such a body ends the
\* loop there, with (True, None) when the headers carry no CMS signature.
C18_VerifyHashStripped ==
    /\ [](/\ RequestsBounded
          /\ (Returned /\ verify_result.success)
                => /\ verify_result.cms = "None"
                   /\ LastHashStripped /\ CmsOf(verify_last.headers) = "None"
          /\ LastHashStripped
                => /\ Returned
                   /\ verify_result =
                        IF CmsOf(verify_last.headers) # "None"
                        THEN [success |-> FALSE, cms |-> CmsOf(verify_last.headers)]
                        ELSE [success |-> TRUE, cms |-> "None"]
          /\ ExhaustedReturn)
    /\ <>Returned

\* the default eight passes were used up, the last of them ending in an
\* exception, and the CMS of an earlier response is returned
C18_Witness ==
    /\ Returned
    /\ verify_retries = DefaultRetries /\ verify_requests = DefaultRetries
    /\ verify_last.raised
    /\ verify_result = [success |-> FALSE, cms |-> "Webflow"]

====
